---- MODULE Spec2Model ----
(***************************************************************************)
(* Model of Quadcopter.cpp (V-REP quadcopter plug-in):                     *)
(*   - the custom-data codec (parseUint32, parseCustomData),               *)
(*   - the role lookup (hasCustomDataField, searchCustomDataField,         *)
(*     Quadcopter::query, the Quadcopter constructor),                     *)
(*   - the flight controller (simulationStarted, simulationStopped,        *)
(*     simulationStepped / pidControl, setMotorParticleVelocity).          *)
(*                                                                         *)
(* Three specifications share the module: SpecCodec (the decoder applied   *)
(* to byte buffers), SpecTree (lookups over object trees) and Spec (the    *)
(* controller's callbacks).                                                *)
(***************************************************************************)
EXTENDS Integers, Sequences, FiniteSets, TLC

VARIABLES
  \* ---- codec ----
  src,          \* what the buffers were written from: entries and cut (for buf, or per object)
  buf,          \* the byte buffer handed to parseCustomData
  decoded,      \* outcome of parseCustomData(buf), NotRun before the call
  \* ---- role lookup ----
  children,     \* host scene: object -> sequence of its children (child index order)
  customData,   \* host scene: object -> custom-data buffer stored under DATA_ID
  ret,          \* the call made on the scene and how it ended
  quad,         \* how the constructor ended and the bindings of the Quadcopter it left
  \* ---- flight controller ----
  running,      \* host lifecycle: a simulation run is in progress
  mem,          \* ControllerState: the m_* members of Quadcopter
  world,        \* what the host's reads delivered (or would have) in the last tick
  motorScript,  \* host: motor n's object has an associated script
  calls,        \* setMotorParticleVelocity delegations <<n, v>> of the last tick
  hostWrites,   \* simSetScriptSimulationParameter calls <<n, v>> of the last tick
  diag,         \* source line of the CHECK that failed in the last tick, 0 if none
  prevFailed,   \* the callback before the last tick was a tick that failed
  lastCall      \* the callback the host invoked last

vars == <<src, buf, decoded, children, customData, ret, quad,
          running, mem, world, motorScript, calls, hostWrites,
          diag, prevFailed, lastCall>>

codecVars == <<src, buf, decoded>>
treeVars  == <<children, customData, ret, quad>>
ctrlVars  == <<running, mem, world, motorScript, calls, hostWrites,
               diag, prevFailed, lastCall>>

(***************************************************************************)
(* Field ids of the custom data (Quadcopter.cpp:24-32).                    *)
(***************************************************************************)
FIELD_QUADCOPTER   == 0
FIELD_MOTOR_0      == 1
FIELD_MOTOR_1      == 2
FIELD_MOTOR_2      == 3
FIELD_MOTOR_3      == 4
FIELD_CAMERA_DOWN  == 5
FIELD_CAMERA_FRONT == 6
FIELD_BODY         == 7
FIELD_TARGET       == 8

\* The "no object" handle every host call and lookup uses.
Absent == -1

(***************************************************************************)
(*                               CODEC                                     *)
(***************************************************************************)

\* Outcomes the build can produce when byte_vector(p, p + len) reads past
\* buf.end() (undefined behaviour): the process faults, or the bytes behind
\* the buffer are copied and the loop goes on with p beyond end.
UBOutcomes == {"crash", "overread"}

\* std::map<uint32_t, byte_vector>: result[id] = payload.
EmptyData == [i \in {} |-> <<>>]

MapPut(result, id, payload) ==
  [i \in (DOMAIN result) \cup {id} |-> IF i = id THEN payload ELSE result[i]]

\* parseUint32(p, end): p is the iterator's offset from buf.begin().
\* Throws when fewer than 4 bytes remain, else reads 4 bytes little endian
\* and advances p by 4.  The four shifted bytes occupy disjoint bits, so
\* their OR is their sum and never exceeds 32 bits.  (The buffers below keep
\* every byte under 128, so the sum also fits TLC's 32-bit integers.)
\* Variant: the four bytes taken most significant first.
ParseUint32BigEndian(b, p) ==
  IF Len(b) - p < 4
    THEN [thrown |-> TRUE, value |-> 0, p |-> p]
    ELSE [thrown |-> FALSE,
          value  |-> b[p + 4] + b[p + 3] * 256 + b[p + 2] * 65536
                       + b[p + 1] * 16777216,
          p      |-> p + 4]

ParseUint32(b, p) ==
  IF Len(b) - p < 4
    THEN [thrown |-> TRUE, value |-> 0, p |-> p]
    ELSE [thrown |-> FALSE,
          value  |-> b[p + 1] + b[p + 2] * 256 + b[p + 3] * 65536
                       + b[p + 4] * 16777216,
          p      |-> p + 4]

\* The while loop of parseCustomData from read position p with the entries
\* collected so far.  A result record carries how the call ended, the
\* mapping (meaningful only when it returned) and the last read position.
RECURSIVE ParseLoop(_, _, _, _)
ParseLoop(b, p, result, ub) ==
  IF p = Len(b)
    THEN [status |-> "returned", result |-> result, p |-> p]
    ELSE LET id == ParseUint32(b, p) IN
      IF id.thrown
        THEN [status |-> "FormatError", result |-> EmptyData, p |-> id.p]
        ELSE LET len == ParseUint32(b, id.p) IN
          IF len.thrown
            THEN [status |-> "FormatError", result |-> EmptyData, p |-> len.p]
            ELSE LET q == len.p + len.value IN
              IF q <= Len(b)
                THEN ParseLoop(b, q,
                               MapPut(result, id.value, SubSeq(b, len.p + 1, q)),
                               ub)
                ELSE \* p + len is beyond end: the slice reads out of bounds
                  IF ub = "crash"
                    THEN [status |-> "crash", result |-> EmptyData, p |-> q]
                    ELSE \* the bytes behind the buffer are indeterminate; the
                         \* entry keeps the in-buffer part, and the mapping is
                         \* lost to the exception the next parseUint32 throws
                      ParseLoop(b, q,
                                MapPut(result, id.value,
                                       SubSeq(b, len.p + 1, Len(b))),
                                ub)

ParseCustomData(b, ub) == ParseLoop(b, 0, EmptyData, ub)

(***************************************************************************)
(* Buffers the codec is run on.  A buffer is written from a list of        *)
(* entries [id, payload, lie]: id and declared length as little-endian     *)
(* uint32, then the payload; the declared length is Len(payload) + lie,    *)
(* and the buffer may be cut short.                                        *)
(***************************************************************************)
MaxEntries == 2

EntryIds      == {FIELD_BODY, 300}
EntryPayloads == {<<>>, <<9>>, <<4, 9>>}
EntryLies     == {0, 2}

Entries == [id : EntryIds, payload : EntryPayloads, lie : EntryLies]

EntryLists == UNION {[1..n -> Entries] : n \in 0..MaxEntries}

U32Bytes(v) ==
  <<v % 256, (v \div 256) % 256, (v \div 65536) % 256, (v \div 16777216) % 256>>

RECURSIVE Serialize(_)
Serialize(es) ==
  IF es = <<>> THEN <<>>
  ELSE U32Bytes(Head(es).id)
         \o U32Bytes(Len(Head(es).payload) + Head(es).lie)
         \o Head(es).payload
         \o Serialize(Tail(es))

NotRun == [status |-> "not run", result |-> EmptyData, p |-> 0]

(***************************************************************************)
(*                          FLIGHT CONTROLLER                              *)
(*                                                                         *)
(* Floats are modelled as exact reals in fixed point: a host reading is an *)
(* integer number of units, thrust and the corrections are in thousandths  *)
(* (milli) and a motor command in millionths (micro), so that every        *)
(* coefficient of pidControl (5.335, 0.25, 2.1, 0.005, 0.1, ...) is exact. *)
(* Rounding of single-precision arithmetic is outside the model.           *)
(***************************************************************************)

\* The gains of pidControl.
pParam == 1
iParam == 0
dParam == 0
vParam == -2

\* 5.335f, in thousandths.
BaseThrustMilli == 5335

MemFields == {"m_last_save_time", "m_cumul", "m_lastE", "m_pAlphaE",
              "m_pBetaE", "m_psp0", "m_psp1", "m_prevEuler"}

\* The constructor leaves the controller members uninitialised: any value.
UninitVals == {0, 7}

\* Variant: a start that forgets to clear the integral.
ResetStateKeepsIntegral(m) ==
  [m EXCEPT !.m_last_save_time = 0, !.m_lastE = 0, !.m_pAlphaE = 0,
            !.m_pBetaE = 0, !.m_psp0 = 0, !.m_psp1 = 0, !.m_prevEuler = 0]

\* simulationStarted: every member is assigned zero.
ResetState(m) ==
  [m EXCEPT !.m_last_save_time = 0, !.m_cumul = 0, !.m_lastE = 0,
            !.m_pAlphaE = 0, !.m_pBetaE = 0, !.m_psp0 = 0, !.m_psp1 = 0,
            !.m_prevEuler = 0]

\* What the eight host reads of one tick deliver: targetPos[2], pos[2],
\* vel[2], sp[0], sp[1], m[11], and vx[2], vy[2] after simTransformVector,
\* euler[2].
ReadingNames == {"targetZ", "posZ", "velZ", "sp0", "sp1", "m11", "vx2",
                 "vy2", "eulerZ"}

\* The hover scene: target one unit above the body, everything else zero.
Hover == [targetZ |-> 2, posZ |-> 1, velZ |-> 0, sp0 |-> 0, sp1 |-> 0,
          m11 |-> 0, vx2 |-> 0, vy2 |-> 0, eulerZ |-> 0]

\* A scene in which every reading is off its hover value: the body above
\* the target, climbing, displaced, tilted and turned.
Tilted == [targetZ |-> 1, posZ |-> 2, velZ |-> 1, sp0 |-> 1, sp1 |-> 2,
           m11 |-> 1, vx2 |-> 2, vy2 |-> 0, eulerZ |-> 1]

ReadingVals == {0, 1}

\* The scenes a tick may see: the hover scene with at most one reading moved,
\* and the tilted scene.
Worlds == {Hover, Tilted} \cup
          {[Hover EXCEPT ![f] = v] : f \in ReadingNames, v \in ReadingVals}

\* The CHECKed host calls of pidControl in program order, by source line.
CheckLines == <<296, 297, 298, 312, 313, 314, 315, 332>>
NumChecks  == Len(CheckLines)

\* Cap on |m_cumul|, which the code lets grow without bound.
MaxCumul == 2

\* fail = 0: every read succeeds; fail = k: the k-th CHECKed call is the
\* first to report -1.  CHECK prints the diagnostic and returns from
\* pidControl.
\* Variant: the velocity read's result is not checked.
VerticalAbortsIgnoresVelocity(fail) == fail \in 1..2

VerticalAborts(fail) == fail \in 1..3

HorizontalAborts(fail) == fail \in 4..7

\* Variant: a failed orientation read is reported but the tick goes on.
YawAbortsNever(fail) == FALSE

YawAborts(fail) == fail = 8

DiagLine(fail) == IF fail = 0 THEN 0 ELSE CheckLines[fail]

\* Vertical control (lines 300-304).
VerticalError(w) == w.targetZ - w.posZ

VerticalMem(m, w) ==
  [m EXCEPT !.m_cumul = @ + VerticalError(w), !.m_lastE = VerticalError(w)]

ThrustMilli(m, w) ==
  LET error == VerticalError(w)
      cumul == m.m_cumul + error
      pv    == pParam * error
  IN  BaseThrustMilli
        + 1000 * (pv + iParam * cumul + dParam * (error - m.m_lastE)
                  + w.velZ * vParam)

\* Horizontal control (lines 317-328).
AlphaE(w) == w.vy2 - w.m11
BetaE(w)  == w.vx2 - w.m11

\* Variant: m_pAlphaE is overwritten before the difference is taken.
AlphaCorrMilliStale(m, w) ==
  250 * AlphaE(w) + 2100 * (AlphaE(w) - AlphaE(w))
    + 5 * w.sp1 + 1000 * (w.sp1 - m.m_psp1)

AlphaCorrMilli(m, w) ==
  250 * AlphaE(w) + 2100 * (AlphaE(w) - m.m_pAlphaE)
    + 5 * w.sp1 + 1000 * (w.sp1 - m.m_psp1)

BetaCorrMilli(m, w) ==
  (0 - 250) * BetaE(w) - 2100 * (BetaE(w) - m.m_pBetaE)
    - 5 * w.sp0 - 1000 * (w.sp0 - m.m_psp0)

HorizontalMem(m, w) ==
  [m EXCEPT !.m_pAlphaE = AlphaE(w), !.m_pBetaE = BetaE(w),
            !.m_psp0 = w.sp0, !.m_psp1 = w.sp1]

\* Rotational control (lines 333-334).
RotCorrMilli(m, w) == 100 * w.eulerZ + 2000 * (w.eulerZ - m.m_prevEuler)

YawMem(m, w) == [m EXCEPT !.m_prevEuler = w.eulerZ]

\* Motor mixing (lines 337-340), in millionths.
MotorVel(m, w) ==
  LET thrust == ThrustMilli(m, w)
      a      == AlphaCorrMilli(m, w)
      b      == BetaCorrMilli(m, w)
      r      == RotCorrMilli(m, w)
  IN  << thrust * (1000 - a + b + r),
         thrust * (1000 - a - b - r),
         thrust * (1000 + a - b + r),
         thrust * (1000 + a + b - r) >>

\* setMotorParticleVelocity(n, v): the host writes it makes.  The value is
\* passed as std::to_string(v), a decimal with six fractional digits: the
\* command in millionths.
SetMotorParticleVelocity(n, v, scripts) ==
  IF n < 0 \/ n > 3 THEN <<>>
  ELSE IF ~scripts[n] THEN <<>>
  ELSE << <<n, v>> >>

\* Variant: the members are committed only by a tick whose reads all succeed.
PidControlAtomic(m, w, fail, scripts) ==
  LET m3 == YawMem(HorizontalMem(VerticalMem(m, w), w), w)
      mv == MotorVel(m, w)
  IN  IF fail # 0
        THEN [mem |-> m, calls |-> <<>>, writes |-> <<>>, diag |-> DiagLine(fail)]
        ELSE [mem    |-> m3,
              calls  |-> << <<0, mv[1]>>, <<1, mv[2]>>, <<2, mv[3]>>, <<3, mv[4]>> >>,
              writes |-> SetMotorParticleVelocity(0, mv[1], scripts)
                           \o SetMotorParticleVelocity(1, mv[2], scripts)
                           \o SetMotorParticleVelocity(2, mv[3], scripts)
                           \o SetMotorParticleVelocity(3, mv[4], scripts),
              diag   |-> 0]

\* pidControl on members m, readings w, first failing read fail: the members
\* it leaves, the setMotorParticleVelocity calls it makes, the host writes
\* these make and the diagnostic it prints.
PidControl(m, w, fail, scripts) ==
  LET m1 == VerticalMem(m, w)
      m2 == HorizontalMem(m1, w)
      m3 == YawMem(m2, w)
      mv == MotorVel(m, w)
      none == [calls |-> <<>>, writes |-> <<>>, diag |-> DiagLine(fail)]
  IN  IF VerticalAborts(fail) THEN [mem |-> m] @@ none
      ELSE IF HorizontalAborts(fail) THEN [mem |-> m1] @@ none
      ELSE IF YawAborts(fail) THEN [mem |-> m2] @@ none
      ELSE [mem    |-> m3,
            calls  |-> << <<0, mv[1]>>, <<1, mv[2]>>, <<2, mv[3]>>, <<3, mv[4]>> >>,
            writes |-> SetMotorParticleVelocity(0, mv[1], scripts)
                         \o SetMotorParticleVelocity(1, mv[2], scripts)
                         \o SetMotorParticleVelocity(2, mv[3], scripts)
                         \o SetMotorParticleVelocity(3, mv[4], scripts),
            diag   |-> DiagLine(fail)]

\* Which motors have a script: all of them, or all but motor 3.
ScriptConfigs == {[n \in 0..3 |-> TRUE], [n \in 0..3 |-> n # 3]}

CodecIdle == src = <<>> /\ buf = <<>> /\ decoded = NotRun

TreeIdle == children = <<>> /\ customData = <<>> /\ ret = <<>> /\ quad = <<>>

\* The state after construction: the members hold whatever was in memory.
Init ==
  /\ CodecIdle
  /\ TreeIdle
  /\ running = FALSE
  /\ mem \in [MemFields -> UninitVals]
  /\ world = Hover
  /\ motorScript \in ScriptConfigs
  /\ calls = <<>>
  /\ hostWrites = <<>>
  /\ diag = 0
  /\ prevFailed = FALSE
  /\ lastCall = "constructor"

SimulationStarted ==
  /\ mem' = ResetState(mem)
  /\ running' = TRUE
  /\ lastCall' = "simulationStarted"
  /\ prevFailed' = FALSE
  /\ UNCHANGED <<world, motorScript, calls, hostWrites, diag>>
  /\ UNCHANGED <<codecVars, treeVars>>

SimulationStopped ==
  /\ running
  /\ running' = FALSE
  /\ lastCall' = "simulationStopped"
  /\ prevFailed' = FALSE
  /\ UNCHANGED <<mem, world, motorScript, calls, hostWrites, diag>>
  /\ UNCHANGED <<codecVars, treeVars>>

\* simulationStepped calls pidControl and nothing else (the image dump is
\* compiled out).
SimulationStepped ==
  /\ running
  /\ \E w \in Worlds, fail \in 0..NumChecks :
       LET r == PidControl(mem, w, fail, motorScript) IN
         /\ r.mem.m_cumul \in (0 - MaxCumul)..MaxCumul
         /\ mem' = r.mem
         /\ calls' = r.calls
         /\ hostWrites' = r.writes
         /\ diag' = r.diag
         /\ world' = w
  /\ prevFailed' = (lastCall = "simulationStepped" /\ diag # 0)
  /\ lastCall' = "simulationStepped"
  /\ UNCHANGED <<running, motorScript>>
  /\ UNCHANGED <<codecVars, treeVars>>

Next == SimulationStarted \/ SimulationStopped \/ SimulationStepped

Spec == Init /\ [][Next]_vars

(***************************************************************************)
(*                     PROPERTIES OF THE CONTROLLER                        *)
(***************************************************************************)

ZeroMem == [f \in MemFields |-> 0]

\* C1: immediately after every simulationStarted call, whatever callbacks
\* came before and whatever they left in the members, every ControllerState
\* field (integral, previous errors, previous setpoint, previous yaw error,
\* last-save time) is zero.
C1_StartZeroesControllerState ==
  lastCall = "simulationStarted" => \A f \in MemFields : mem[f] = 0

\* A start that follows a tick which completed with a nonzero altitude error
\* (so m_lastE and m_cumul were nonzero when the start came).
C1_StartAfterDirtyRun ==
  /\ lastCall = "simulationStarted"
  /\ Len(calls) = 4
  /\ world.targetZ # world.posZ
  /\ mem = ZeroMem

\* C2: a tick makes either no setMotorParticleVelocity call (exactly when one
\* of the eight reads failed) or the four calls for motors 0..3 (exactly when
\* all succeeded); a failed tick leaves the run going, and from the state it
\* leaves a tick whose reads all succeed makes its four calls.
C2_TickWritesAllOrNothing ==
  lastCall = "simulationStepped" =>
    /\ Len(calls) \in {0, 4}
    /\ (diag # 0) <=> (Len(calls) = 0)
    /\ diag = 0 => \A i \in 1..4 : calls[i][1] = i - 1
    /\ running
    /\ diag # 0 =>
         \A w \in Worlds :
           Len(PidControl(mem, w, 0, motorScript).calls) = 4

\* A tick that issued its four commands right after a tick that failed.
C2_TickAfterFailedTick ==
  /\ lastCall = "simulationStepped"
  /\ prevFailed
  /\ diag = 0
  /\ Len(calls) = 4

\* The check lines of each stage and the members each stage writes.
VerticalLines   == {296, 297, 298}
HorizontalLines == {312, 313, 314, 315}
YawLines        == {332}

\* C3: in a tick in which a read fails, the members of a stage are either all
\* left as they were or, only when every read up to the end of that stage
\* succeeded, all set to the values computed from this tick's readings; the
\* last-save time is untouched.
C3_FailedTickWritesOnlyComputedFields ==
  [][ (lastCall' = "simulationStepped" /\ diag' # 0) =>
        LET e  == world'.targetZ - world'.posZ
            aE == world'.vy2 - world'.m11
            bE == world'.vx2 - world'.m11
        IN
        /\ \/ /\ mem'.m_cumul = mem.m_cumul
              /\ mem'.m_lastE = mem.m_lastE
           \/ /\ diag' > 298
              /\ mem'.m_cumul = mem.m_cumul + e
              /\ mem'.m_lastE = e
        /\ \/ /\ mem'.m_pAlphaE = mem.m_pAlphaE
              /\ mem'.m_pBetaE = mem.m_pBetaE
              /\ mem'.m_psp0 = mem.m_psp0
              /\ mem'.m_psp1 = mem.m_psp1
           \/ /\ diag' > 315
              /\ mem'.m_pAlphaE = aE
              /\ mem'.m_pBetaE = bE
              /\ mem'.m_psp0 = world'.sp0
              /\ mem'.m_psp1 = world'.sp1
        /\ mem'.m_prevEuler = mem.m_prevEuler
        /\ mem'.m_last_save_time = mem.m_last_save_time
        /\ running'
    ]_vars

\* A tick that failed in the horizontal stage after the vertical stage had
\* stored a nonzero altitude error.
C3_FailedTickAfterVerticalStage ==
  /\ lastCall = "simulationStepped"
  /\ diag \in HorizontalLines
  /\ mem.m_lastE # 0
  /\ calls = <<>>

\* C9: in a tick whose reads all succeed the four commands are
\* thrust*(1-a+b+r), thrust*(1-a-b-r), thrust*(1+a-b+r), thrust*(1+a+b-r)
\* with thrust, a, b, r given by the control law from this tick's readings
\* and the members as the tick found them; with target z 2, body z 1, no
\* vertical velocity and zero corrections all four are 6.335.
C9_MotorCommandsFollowControlLaw ==
  [][ (lastCall' = "simulationStepped" /\ diag' = 0) =>
        LET r        == world'
            error    == r.targetZ - r.posZ
            integral == mem.m_cumul + error
            thrust   == 5335 + 1000 * error + 0 * integral
                          + 0 * (error - mem.m_lastE) - 2000 * r.velZ
            alphaE   == r.vy2 - r.m11
            betaE    == r.vx2 - r.m11
            a        == 250 * alphaE + 2100 * (alphaE - mem.m_pAlphaE)
                          + (5 * r.sp1 + 1000 * (r.sp1 - mem.m_psp1))
            b        == (0 - 250) * betaE - 2100 * (betaE - mem.m_pBetaE)
                          - (5 * r.sp0 + 1000 * (r.sp0 - mem.m_psp0))
            rot      == 100 * r.eulerZ + 2000 * (r.eulerZ - mem.m_prevEuler)
        IN
        /\ calls' = << <<0, thrust * (1000 - a + b + rot)>>,
                       <<1, thrust * (1000 - a - b - rot)>>,
                       <<2, thrust * (1000 + a - b + rot)>>,
                       <<3, thrust * (1000 + a + b - rot)>> >>
        /\ (r.targetZ = 2 /\ r.posZ = 1 /\ r.velZ = 0
              /\ a = 0 /\ b = 0 /\ rot = 0) =>
             \A i \in 1..4 : calls'[i][2] = 6335000
    ]_vars

\* The hover example on a tick that is not the first of its run: all four
\* commands are 6.335.
C9_HoverCommands ==
  /\ lastCall = "simulationStepped"
  /\ diag = 0
  /\ world = Hover
  /\ mem.m_cumul = 2
  /\ calls = << <<0, 6335000>>, <<1, 6335000>>, <<2, 6335000>>, <<3, 6335000>> >>

\* C10: the members are committed stage by stage.  A tick whose first failing
\* read is in the vertical stage changes no member; one failing in the
\* horizontal stage has added this tick's error to the integral and replaced
\* the previous altitude error, and nothing else; one failing at the yaw read
\* has updated every member but the previous yaw error.  None issues a
\* command, so ticks failing after the vertical stage keep growing the
\* integral.
C10_StagedCommit ==
  [][ lastCall' = "simulationStepped" =>
        LET e == world'.targetZ - world'.posZ IN
        /\ diag' \in VerticalLines => mem' = mem
        /\ diag' \in HorizontalLines =>
             /\ mem' = [mem EXCEPT !.m_cumul = mem.m_cumul + e, !.m_lastE = e]
             /\ calls' = <<>>
        /\ diag' \in YawLines =>
             /\ mem' = [mem EXCEPT !.m_cumul = mem.m_cumul + e,
                                   !.m_lastE = e,
                                   !.m_pAlphaE = world'.vy2 - world'.m11,
                                   !.m_pBetaE = world'.vx2 - world'.m11,
                                   !.m_psp0 = world'.sp0,
                                   !.m_psp1 = world'.sp1]
             /\ calls' = <<>>
    ]_vars

\* Two failed ticks in a row, the second failing after the vertical stage,
\* with the integral grown to 2 and no command issued.
C10_IntegralGrowsWithoutCommand ==
  /\ lastCall = "simulationStepped"
  /\ prevFailed
  /\ diag \in HorizontalLines \cup YawLines
  /\ calls = <<>>
  /\ world.targetZ - world.posZ = 1
  /\ mem.m_cumul = 2

(***************************************************************************)
(*                     SPECIFICATION OF THE CODEC                          *)
(***************************************************************************)

\* A controller on which no callback runs.
CtrlIdle ==
  /\ running = FALSE
  /\ mem = ZeroMem
  /\ world = Hover
  /\ motorScript = [n \in 0..3 |-> TRUE]
  /\ calls = <<>>
  /\ hostWrites = <<>>
  /\ diag = 0
  /\ prevFailed = FALSE
  /\ lastCall = "none"

\* Every entry list, written out and cut at every length.
InitCodec ==
  /\ \E es \in EntryLists :
       \E k \in 0..Len(Serialize(es)) :
         /\ src = [entries |-> es, cut |-> k]
         /\ buf = SubSeq(Serialize(es), 1, k)
  /\ decoded = NotRun
  /\ TreeIdle
  /\ CtrlIdle

Decode ==
  /\ decoded = NotRun
  /\ \E ub \in UBOutcomes : decoded' = ParseCustomData(buf, ub)
  /\ UNCHANGED <<src, buf, treeVars, ctrlVars>>

NextCodec == Decode

SpecCodec == InitCodec /\ [][NextCodec]_vars

\* A buffer is well formed when every declared length is the payload's and
\* nothing was cut off.
WellFormed(s) ==
  /\ \A i \in 1..Len(s.entries) : s.entries[i].lie = 0
  /\ s.cut = Len(Serialize(s.entries))

\* The mapping a list of entries stands for: each id to the payload of its
\* last occurrence.
LastIndexOf(es, id) ==
  CHOOSE i \in 1..Len(es) :
    /\ es[i].id = id
    /\ \A j \in 1..Len(es) : es[j].id = id => j <= i

MappingOf(es) ==
  [id \in {es[i].id : i \in 1..Len(es)} |-> es[LastIndexOf(es, id)].payload]

\* C5: decoding never reads past the end of the buffer: the call returns a
\* mapping or throws the format error, and the read position stays within
\* the buffer.
C5_DecodeStaysInsideBuffer ==
  decoded # NotRun =>
    /\ decoded.status \in {"returned", "FormatError"}
    /\ decoded.p <= Len(buf)

\* C8: a well-formed buffer decodes to the mapping of each id to the payload
\* of its last occurrence, with no other id; so entries with unique ids
\* decode to themselves and the empty buffer to the empty mapping.
C8_DecodeOfWellFormedBuffer ==
  (decoded # NotRun /\ WellFormed(src)) =>
    /\ decoded.status = "returned"
    /\ decoded.p = Len(buf)
    /\ DOMAIN decoded.result = {src.entries[i].id : i \in 1..Len(src.entries)}
    /\ \A id \in DOMAIN decoded.result :
         decoded.result[id] = MappingOf(src.entries)[id]
    /\ (\A i, j \in 1..Len(src.entries) :
          src.entries[i].id = src.entries[j].id => i = j) =>
         \A i \in 1..Len(src.entries) :
           decoded.result[src.entries[i].id] = src.entries[i].payload
    /\ buf = <<>> => decoded.result = EmptyData

\* A decoded well-formed buffer in which an id occurs twice with different
\* payloads.
C8_RepeatedIdDecoded ==
  /\ decoded.status = "returned"
  /\ WellFormed(src)
  /\ Len(src.entries) = 2
  /\ src.entries[1].id = 300
  /\ src.entries[2].id = 300
  /\ src.entries[1].payload = <<9>>
  /\ src.entries[2].payload = <<4, 9>>
  /\ decoded.result[300] = <<4, 9>>

(***************************************************************************)
(*                            ROLE LOOKUP                                  *)
(***************************************************************************)

\* Number of objects in a scene; object 0 is the root of the hierarchy.
NumObjects == 4

Objects == 0..(NumObjects - 1)

\* Host API over the scene.
SimGetObjectCustomDataLength(obj) == Len(customData[obj])

SimGetObjectCustomData(obj) == customData[obj]

SimGetObjectChild(obj, i) ==
  IF i < Len(children[obj]) THEN children[obj][i + 1] ELSE Absent

\* Variant: any object with custom data counts as carrying the field.
HasCustomDataFieldAnyData(obj, field, ub) ==
  [status |-> "returned", value |-> SimGetObjectCustomDataLength(obj) > 0]

\* hasCustomDataField(obj, field): no data means no field; otherwise the
\* buffer is parsed and the field looked up.  Nothing catches what
\* parseCustomData throws, so the call ends the way the parse ended.
HasCustomDataField(obj, field, ub) ==
  LET size == SimGetObjectCustomDataLength(obj) IN
  IF size <= 0
    THEN [status |-> "returned", value |-> FALSE]
    ELSE LET data == ParseCustomData(SimGetObjectCustomData(obj), ub) IN
      IF data.status # "returned"
        THEN [status |-> data.status, value |-> FALSE]
        ELSE [status |-> "returned", value |-> field \in DOMAIN data.result]

\* The for (;;) loop of searchCustomDataField: the children of obj from
\* index i on, up to the first index the host answers -1 for.
RECURSIVE EnumChildren(_, _)
EnumChildren(obj, i) ==
  LET child == SimGetObjectChild(obj, i) IN
  IF child = Absent THEN <<>> ELSE <<child>> \o EnumChildren(obj, i + 1)

\* Variant: children are put in front of the queue (depth first).
RECURSIVE SearchLoopDepthFirst(_, _, _)
SearchLoopDepthFirst(q, field, ub) ==
  IF q = <<>>
    THEN [status |-> "returned", value |-> Absent]
    ELSE LET obj == Head(q)
             has == HasCustomDataField(obj, field, ub)
         IN  IF has.status # "returned"
               THEN [status |-> has.status, value |-> Absent]
               ELSE IF has.value
                 THEN [status |-> "returned", value |-> obj]
                 ELSE SearchLoopDepthFirst(EnumChildren(obj, 0) \o Tail(q),
                                           field, ub)

\* The while loop of searchCustomDataField on queue q.
RECURSIVE SearchLoop(_, _, _)
SearchLoop(q, field, ub) ==
  IF q = <<>>
    THEN [status |-> "returned", value |-> Absent]
    ELSE LET obj == Head(q)
             has == HasCustomDataField(obj, field, ub)
         IN  IF has.status # "returned"
               THEN [status |-> has.status, value |-> Absent]
               ELSE IF has.value
                 THEN [status |-> "returned", value |-> obj]
                 ELSE SearchLoop(Tail(q) \o EnumChildren(obj, 0), field, ub)

SearchCustomDataField(root, field, ub) == SearchLoop(<<root>>, field, ub)

\* Quadcopter::query(obj).
Query(obj, ub) == HasCustomDataField(obj, FIELD_QUADCOPTER, ub)

\* The constructor's lookups in the order it makes them: m_body, m_target,
\* m_cameraDown, m_cameraFront, m_motors[0..3].
ConstructorFields ==
  <<FIELD_BODY, FIELD_TARGET, FIELD_CAMERA_DOWN, FIELD_CAMERA_FRONT,
    FIELD_MOTOR_0, FIELD_MOTOR_1, FIELD_MOTOR_2, FIELD_MOTOR_3>>

\* The lookups from the k-th on: the objects found, or how the first lookup
\* that did not return ended.
RECURSIVE Lookups(_, _, _)
Lookups(obj, k, ub) ==
  IF k > Len(ConstructorFields)
    THEN [status |-> "returned", found |-> <<>>]
    ELSE LET r == SearchCustomDataField(obj, ConstructorFields[k], ub) IN
      IF r.status # "returned"
        THEN [status |-> r.status, found |-> <<>>]
        ELSE LET rest == Lookups(obj, k + 1, ub) IN
          [status |-> rest.status,
           found  |-> IF rest.status = "returned"
                        THEN <<r.value>> \o rest.found ELSE <<>>]

NoBindings ==
  [m_obj |-> Absent, m_body |-> Absent, m_target |-> Absent,
   m_cameraDown |-> Absent, m_cameraFront |-> Absent,
   m_motors |-> <<Absent, Absent, Absent, Absent>>]

\* Quadcopter::Quadcopter(obj): the object it leaves, or the way it was
\* left when a lookup threw.
Constructor(obj, ub) ==
  LET l == Lookups(obj, 1, ub) IN
  IF l.status # "returned"
    THEN [status |-> l.status, bind |-> NoBindings]
    ELSE [status |-> "constructed",
          bind   |-> [m_obj         |-> obj,
                      m_body        |-> l.found[1],
                      m_target      |-> l.found[2],
                      m_cameraDown  |-> l.found[3],
                      m_cameraFront |-> l.found[4],
                      m_motors      |-> <<l.found[5], l.found[6],
                                          l.found[7], l.found[8]>>]]

(***************************************************************************)
(* Scenes: every hierarchy over the objects (each object's parent has a    *)
(* smaller id; children are enumerated in ascending or descending id       *)
(* order), every object holding one of a few custom-data buffers.          *)
(***************************************************************************)
ParentMaps ==
  {pm \in [1..(NumObjects - 1) -> Objects] : \A i \in DOMAIN pm : pm[i] < i}

RECURSIVE AscSeq(_)
AscSeq(S) ==
  IF S = {} THEN <<>>
  ELSE LET m == CHOOSE x \in S : \A y \in S : x <= y
       IN  <<m>> \o AscSeq(S \ {m})

Reverse(q) == [i \in 1..Len(q) |-> q[Len(q) + 1 - i]]

ChildrenOf(pm, rev) ==
  [o \in Objects |->
     LET asc == AscSeq({i \in DOMAIN pm : pm[i] = o})
     IN  IF rev THEN Reverse(asc) ELSE asc]

Tag(id) == [id |-> id, payload |-> <<>>, lie |-> 0]

\* What an object's buffer was written from: nothing, the quadcopter and
\* body tags, the target, motor, camera and body tags, a tag cut after three
\* bytes, and a tag declaring two payload bytes it does not have.
DataSources ==
  { [entries |-> <<>>, cut |-> 0],
    [entries |-> <<Tag(FIELD_QUADCOPTER), Tag(FIELD_BODY)>>, cut |-> 16],
    [entries |-> <<Tag(FIELD_TARGET), Tag(FIELD_MOTOR_0), Tag(FIELD_MOTOR_1),
                   Tag(FIELD_MOTOR_2), Tag(FIELD_MOTOR_3),
                   Tag(FIELD_CAMERA_DOWN), Tag(FIELD_CAMERA_FRONT),
                   Tag(FIELD_BODY)>>, cut |-> 64],
    [entries |-> <<Tag(FIELD_BODY)>>, cut |-> 3],
    [entries |-> <<[id |-> FIELD_BODY, payload |-> <<>>, lie |-> 2]>>,
     cut |-> 8] }

BufferOf(s) == SubSeq(Serialize(s.entries), 1, s.cut)

NoRet == [op |-> "none", obj |-> Absent, field |-> 0,
          status |-> "none", value |-> Absent]

NoQuad == [status |-> "none", bind |-> NoBindings]

InitTree ==
  /\ \E pm \in ParentMaps, rev \in BOOLEAN : children = ChildrenOf(pm, rev)
  /\ src \in [Objects -> DataSources]
  /\ customData = [o \in Objects |-> BufferOf(src[o])]
  /\ buf = <<>>
  /\ decoded = NotRun
  /\ ret = NoRet
  /\ quad = NoQuad
  /\ CtrlIdle

\* The fields looked up directly; the constructor looks up the other roles.
SearchFields == {FIELD_QUADCOPTER, FIELD_BODY, FIELD_TARGET, FIELD_CAMERA_FRONT}

\* One call is made on each scene, and ret keeps how it ended.

\* The plug-in asks whether an object is a quadcopter.
QueryCall ==
  /\ ret = NoRet
  /\ \E obj \in Objects, ub \in UBOutcomes :
       LET r == Query(obj, ub) IN
         ret' = [op |-> "query", obj |-> obj, field |-> FIELD_QUADCOPTER,
                 status |-> r.status,
                 value |-> IF r.value THEN 1 ELSE 0]
  /\ UNCHANGED <<src, buf, decoded, children, customData, quad, ctrlVars>>

\* A role lookup under some object.
SearchCall ==
  /\ ret = NoRet
  /\ \E root \in Objects, field \in SearchFields, ub \in UBOutcomes :
       LET r == SearchCustomDataField(root, field, ub) IN
         ret' = [op |-> "search", obj |-> root, field |-> field,
                 status |-> r.status, value |-> r.value]
  /\ UNCHANGED <<src, buf, decoded, children, customData, quad, ctrlVars>>

\* The plug-in constructs a Quadcopter on an object query answers true for.
ConstructCall ==
  /\ ret = NoRet
  /\ \E obj \in Objects, ub \in UBOutcomes :
       /\ Query(obj, ub) = [status |-> "returned", value |-> TRUE]
       /\ quad' = Constructor(obj, ub)
       /\ ret' = [op |-> "construct", obj |-> obj, field |-> FIELD_QUADCOPTER,
                  status |-> quad'.status, value |-> Absent]
  /\ UNCHANGED <<src, buf, decoded, children, customData, ctrlVars>>

NextTree == QueryCall \/ SearchCall \/ ConstructCall

SpecTree == InitTree /\ [][NextTree]_vars

(***************************************************************************)
(*                    PROPERTIES OF THE ROLE LOOKUP                        *)
(***************************************************************************)

\* An object carries a field when its buffer is a well-formed sequence of
\* entries one of which has that id.
Carries(obj, field) ==
  /\ WellFormed(src[obj])
  /\ \E i \in 1..Len(src[obj].entries) : src[obj].entries[i].id = field

RECURSIVE Flatten(_)
Flatten(qs) == IF qs = <<>> THEN <<>> ELSE Head(qs) \o Flatten(Tail(qs))

\* The objects at depth k under root, left to right in child index order.
RECURSIVE LevelSeq(_, _)
LevelSeq(root, k) ==
  IF k = 0 THEN <<root>>
  ELSE LET up == LevelSeq(root, k - 1)
       IN  Flatten([i \in 1..Len(up) |-> children[up[i]]])

LevelOrder(root) == Flatten([k \in 1..NumObjects |-> LevelSeq(root, k - 1)])

\* The first object in level order that carries the field, or Absent.
FirstCarrier(root, field) ==
  LET lo   == LevelOrder(root)
      hits == {i \in 1..Len(lo) : Carries(lo[i], field)}
  IN  IF hits = {} THEN Absent
      ELSE lo[CHOOSE i \in hits : \A j \in hits : i <= j]

SubtreeWellFormed(root) ==
  \A i \in 1..Len(LevelOrder(root)) : WellFormed(src[LevelOrder(root)[i]])

BindingsAreFirstCarriers(obj) ==
  /\ quad.bind.m_obj = obj
  /\ quad.bind.m_body = FirstCarrier(obj, FIELD_BODY)
  /\ quad.bind.m_target = FirstCarrier(obj, FIELD_TARGET)
  /\ quad.bind.m_cameraDown = FirstCarrier(obj, FIELD_CAMERA_DOWN)
  /\ quad.bind.m_cameraFront = FirstCarrier(obj, FIELD_CAMERA_FRONT)
  /\ quad.bind.m_motors = <<FirstCarrier(obj, FIELD_MOTOR_0),
                            FirstCarrier(obj, FIELD_MOTOR_1),
                            FirstCarrier(obj, FIELD_MOTOR_2),
                            FirstCarrier(obj, FIELD_MOTOR_3)>>

\* C4: on every object tree and for every field, searchCustomDataField
\* returns the first object in level order (root first, children in child
\* index order) that carries the field, and returns -1 exactly when no object
\* of the subtree carries it.
C4_SearchReturnsFirstInLevelOrder ==
  ret.op = "search" =>
    /\ ret.status = "returned"
    /\ ret.value = FirstCarrier(ret.obj, ret.field)
    /\ (ret.value = Absent) <=>
         (\A i \in 1..Len(LevelOrder(ret.obj)) :
            ~Carries(LevelOrder(ret.obj)[i], ret.field))

\* C6: a malformed or truncated buffer on a visited object counts as no
\* match: query, the search and the constructor all end normally, and query
\* on such an object answers false.
C6_MalformedDataIsNoMatch ==
  /\ ret.op \in {"query", "search"} => ret.status = "returned"
  /\ ret.op = "construct" => ret.status = "constructed"
  /\ (ret.op = "query" /\ ~WellFormed(src[ret.obj])) => ret.value = 0

\* C7: construction always succeeds and binds each of the eight roles to the
\* breadth-first lookup of its field under the root, Absent when no object
\* carries it; a tree tagged only with the quadcopter and body roles gives a
\* body and seven absent bindings.
C7_ConstructionBindsEveryRole ==
  ret.op = "construct" =>
    /\ quad.status = "constructed"
    /\ BindingsAreFirstCarriers(ret.obj)
    /\ (\A o \in Objects : \A f \in FIELD_MOTOR_0..FIELD_CAMERA_FRONT \cup {FIELD_TARGET} :
          ~Carries(o, f)) =>
         /\ quad.bind.m_body # Absent
         /\ quad.bind.m_target = Absent
         /\ quad.bind.m_cameraDown = Absent
         /\ quad.bind.m_cameraFront = Absent
         /\ quad.bind.m_motors = <<Absent, Absent, Absent, Absent>>

\* Where every buffer under the root of the call is well formed, the search
\* and the constructor do what C4 and C7 say.
SearchCorrectOnWellFormedSubtree ==
  (ret.op = "search" /\ SubtreeWellFormed(ret.obj)) =>
    /\ ret.status = "returned"
    /\ ret.value = FirstCarrier(ret.obj, ret.field)

ConstructionCorrectOnWellFormedSubtree ==
  (ret.op = "construct" /\ SubtreeWellFormed(ret.obj)) =>
    /\ quad.status = "constructed"
    /\ BindingsAreFirstCarriers(ret.obj)

\* The search returns what C4 says whenever it returns.
SearchCorrectWhenItReturns ==
  (ret.op = "search" /\ ret.status = "returned") =>
    ret.value = FirstCarrier(ret.obj, ret.field)

====
